---- MODULE Spec2Model ----
(***************************************************************************)
(* A model of gotheora (src/theora.go): the TheoraEncoder and              *)
(* TheoraDecoder sessions wrapped around the Theora codec engine and the   *)
(* ogg stream, and the raster-to-planar converter                          *)
(* TheoraYUVbuffer.ConvertFromRasterImage.                                  *)
(*                                                                         *)
(* The codec engine (libtheora, reached through cgo) and the ogg stream    *)
(* (github.com/ilya2ik/googg) are external to the repository.  They are    *)
(* modelled by the contract that the wrapper's status handling and the     *)
(* specification document state; every engine call may in addition answer  *)
(* a fault status.                                                         *)
(***************************************************************************)
EXTENDS Integers, Sequences, FiniteSets, TLC

VARIABLES
    \* ---- encoder session (TheoraEncoder) ----
    foggs,      \* TheoraEncoder.foggs: "live", or "nil" after Close
    fState,     \* the engine's theora_state behind TheoraEncoder.fState
    stream,     \* the ogg stream object foggs refers to
    lastOp,     \* the operation that returned last
    lastErr,    \* the error it returned
    lastR,      \* the status of the last engine call it made
    panicked,   \* a Go panic has ended the program
    hdrDone,    \* history: a header emission has returned nil
    faulted,    \* history: an operation has returned errTheoraException
    closes,     \* history: number of Close calls that returned nil (capped)
    obs,        \* history: GetGranulePos after each data packet written
    scen,       \* history: how far the run follows the plain encode session
    \* ---- decoder session (TheoraDecoder) ----
    dState,     \* the engine's decode state behind TheoraDecoder.fState
    dLast,      \* the last decoder operation, its packet, status and error
    dHist,      \* history of the decoder session
    \* ---- converter (TheoraYUVbuffer.ConvertFromRasterImage) ----
    img,        \* the image.Image argument
    fmt,        \* the chroma_format argument
    yuv,        \* the receiver's fields after the call
    reads,      \* the coordinates the call passed to aData.At
    cpc,        \* "start" before the call, "done" after it
    \* ---- example pipeline (src/test/encoder/main.go) ----
    pipe,       \* the reader goroutine, the channel hand-off and the encode loop
    \* ---- TheoraInfo parameters and the native handles ----
    tinfo,      \* the boolean fields of a TheoraInfo and the last accessor call
    handles     \* fValue of a comment, an info, a state and a YUV buffer

encVars == <<foggs, fState, stream, lastOp, lastErr, lastR, panicked, hdrDone, faulted, closes, obs, scen>>
decVars == <<dState, dLast, dHist>>
convVars == <<img, fmt, yuv, reads, cpc>>
auxVars == <<pipe, tinfo, handles>>
vars == <<encVars, decVars, convVars, auxVars>>

----------------------------------------------------------------------------
(* Bounds of the model *)

\* images of every width and height in 1..MaxDim are converted
MaxDim == 2
\* frames the engine accepts before the model stops feeding it
MaxFrames == 2
\* packets the ogg stream holds before the model stops submitting
MaxPackets == 5
\* the configured keyframe_frequency_force (32768 in the example)
KeyframeFrequencyForce == 2
\* the example pipeline encodes 1..MaxTotal frames
MaxTotal == 5
\* explicit Done calls made on one object
MaxDone == 3

----------------------------------------------------------------------------
(* Engine status codes (theora.h), as named in errTheoraException.Error *)

OC_FAULT == -1
OC_EINVAL == -10
OC_IMPL == -23
OC_BADHEADER == -20
OC_NOTFORMAT == -21
OC_BADPACKET == -24

\* statuses with which an engine call may fail whatever its state
FaultStatus == {OC_FAULT, OC_IMPL}

----------------------------------------------------------------------------
(* Errors *)

Err(e, r) == [e |-> e, r |-> r]
NoErr == Err("nil", 0)
errTheoraException(R) == Err("errTheoraException", R)
ETheoraEncCompletedException == Err("ETheoraEncCompletedException", 0)
ETheoraEncNotReadyException == Err("ETheoraEncNotReadyException", 0)
ETheoraEncDifferException == Err("ETheoraEncDifferException", 0)
ETheoraDecBadPacketException == Err("ETheoraDecBadPacketException", 0)
ErrOutOfMemory == Err("errTheoraOutOfMemory", 0)
\* an error of the ogg stream or of the io.Writer behind it
ErrStream == Err("oggError", 0)
\* a nil-interface method call: a run-time panic, not a returned error
GoPanic == Err("panic", 0)

----------------------------------------------------------------------------
(* Packets *)

Packet(kind, eos) == [kind |-> kind, eos |-> eos]
EmptyPacket == Packet("empty", FALSE)
IdentPacket == Packet("ident", FALSE)
CommentPacket == Packet("comment", FALSE)
SetupPacket == Packet("setup", FALSE)

----------------------------------------------------------------------------
(* The codec engine on the encode side: theora_encode_* behind fState.     *)
(* st = [packetflag, doneflag, frames, lastKey, granulepos]                *)

Pow2(n) == IF n = 0 THEN 1 ELSE IF n = 1 THEN 2 ELSE IF n = 2 THEN 4 ELSE IF n = 3 THEN 8 ELSE 16

\* number of bits of v (the engine's ilog)
ILog(v) == IF v <= 0 THEN 0 ELSE IF v < 2 THEN 1 ELSE IF v < 4 THEN 2 ELSE IF v < 8 THEN 3 ELSE 4

\* TheoraInfo.GranuleShift: theora_granule_shift of the configured info
GranuleShift == ILog(KeyframeFrequencyForce - 1)

\* the state theora_encode_init leaves behind a new encoder
EngineInit == [packetflag |-> FALSE, doneflag |-> FALSE, frames |-> 0, lastKey |-> 0, granulepos |-> 0]

\* feed one frame: fault, finished (OC_EINVAL), size differs (-1), or success;
\* keyframes are the engine's choice, forced at the configured distance
theora_encode_YUVin(st, sizeOk, key, fault) ==
    IF fault # 0 THEN [R |-> fault, st |-> st]
    ELSE IF st.doneflag THEN [R |-> OC_EINVAL, st |-> st]
    ELSE IF ~sizeOk THEN [R |-> -1, st |-> st]
    ELSE LET n == st.frames + 1
             isKey == key \/ st.frames = 0 \/ n - st.lastKey >= KeyframeFrequencyForce
             k == IF isKey THEN n ELSE st.lastKey
         IN [R |-> 0,
             st |-> [st EXCEPT !.frames = n, !.lastKey = k, !.packetflag = TRUE,
                               !.granulepos = k * Pow2(GranuleShift) + (n - k)]]

\* drain one packet: fault, completed (-1), none ready (0), or one packet (1)
theora_encode_packetout(st, last_p, fault) ==
    IF fault # 0 THEN [R |-> fault, st |-> st, op |-> EmptyPacket]
    ELSE IF st.doneflag THEN [R |-> -1, st |-> st, op |-> EmptyPacket]
    ELSE IF ~st.packetflag THEN [R |-> 0, st |-> st, op |-> EmptyPacket]
    ELSE [R |-> 1,
          st |-> [st EXCEPT !.packetflag = FALSE, !.doneflag = last_p],
          op |-> Packet("data", last_p)]

----------------------------------------------------------------------------
(* The ogg stream behind foggs (googg's OGGStreamState).                   *)
(* s = [packets, freed]; w is the encoder with the call's packet           *)
(* the last engine status and the error: [foggs, fState, stream, op, R,    *)
(* err]                                                                    *)

StreamInit == [packets |-> <<>>, freed |-> 0]

\* foggs.PacketIn(op): submit the packet to the stream
OggPacketIn(w, ok) ==
    IF w.foggs = "nil" THEN [w EXCEPT !.err = GoPanic]
    ELSE IF ~ok THEN [w EXCEPT !.err = ErrStream]
    ELSE [w EXCEPT !.stream.packets = Append(@, w.op), !.err = NoErr]

\* foggs.PagesOutToStream(writer): write the complete pages to the writer,
\* which may fail; the packets stay submitted
OggPagesOut(w, ok) ==
    IF w.foggs = "nil" THEN [w EXCEPT !.err = GoPanic]
    ELSE IF ~ok THEN [w EXCEPT !.err = ErrStream]
    ELSE [w EXCEPT !.err = NoErr]

\* foggs.SavePacketToStream(writer, op): submit the packet, then write pages
SavePacketToStream(w, inOk, outOk) ==
    LET a == OggPacketIn(w, inOk)
    IN IF a.err # NoErr THEN a ELSE OggPagesOut(a, outOk)

\* foggs.PagesFlushToStream(writer): write what is left, the writer may fail
PagesFlushToStream(w, ok) ==
    IF w.foggs = "nil" THEN [w EXCEPT !.err = GoPanic]
    ELSE IF ~ok THEN [w EXCEPT !.err = ErrStream]
    ELSE [w EXCEPT !.err = NoErr]

\* foggs.Done(): release the native stream
OggDone(w) == [w EXCEPT !.stream.freed = @ + 1]

----------------------------------------------------------------------------
(* TheoraEncoder: the operations of src/theora.go on                       *)
(* w = [foggs, fState, stream, op, R, err]                                 *)

\* OGG.NewPacket(): a fresh packet, or an allocation error
NewPacket(w, mem) ==
    IF mem THEN [w EXCEPT !.op = EmptyPacket, !.err = NoErr] ELSE [w EXCEPT !.err = ErrOutOfMemory]

Header(w, R) ==
    IF R # 0 THEN [w EXCEPT !.R = R, !.err = errTheoraException(R)]
    ELSE [w EXCEPT !.op = IdentPacket, !.R = R, !.err = NoErr]

Comment(w, R) ==
    IF R # 0 THEN [w EXCEPT !.R = R, !.err = errTheoraException(R)]
    ELSE [w EXCEPT !.op = CommentPacket, !.R = R, !.err = NoErr]

Tables(w, R) ==
    IF R # 0 THEN [w EXCEPT !.R = R, !.err = errTheoraException(R)]
    ELSE [w EXCEPT !.op = SetupPacket, !.R = R, !.err = NoErr]

\* the error PacketOut returns for the engine's status
PacketOutErr(R) ==
    IF R = 1 THEN NoErr
    ELSE IF R = -1 THEN ETheoraEncCompletedException
    ELSE IF R = 0 THEN ETheoraEncNotReadyException
    ELSE errTheoraException(R)

PacketOut(w, last_p, fault) ==
    LET c == theora_encode_packetout(w.fState, last_p, fault)
    IN [w EXCEPT !.fState = c.st, !.op = IF c.R = 1 THEN c.op ELSE @, !.R = c.R,
                 !.err = PacketOutErr(c.R)]

DoPacketOut(w, last_p, mem, fault) ==
    LET p == NewPacket(w, mem)
    IN IF p.err # NoErr THEN p ELSE PacketOut(p, last_p, fault)

\* YUVinErr with every non-zero status reported as the generic exception
YUVinErr_AllFatal(R) ==
    IF R = 0 THEN NoErr ELSE errTheoraException(R)

\* YUVinErr with the status -1 reported like OC_EINVAL
YUVinErr_DifferAsNotReady(R) ==
    IF R = 0 THEN NoErr
    ELSE IF R = -1 \/ R = OC_EINVAL THEN ETheoraEncNotReadyException
    ELSE errTheoraException(R)

\* the error YUVin returns for the engine's status
YUVinErr(R) ==
    IF R = 0 THEN NoErr
    ELSE IF R = -1 THEN ETheoraEncDifferException
    ELSE IF R = OC_EINVAL THEN ETheoraEncNotReadyException
    ELSE errTheoraException(R)

YUVin(w, sizeOk, key, fault) ==
    LET c == theora_encode_YUVin(w.fState, sizeOk, key, fault)
    IN [w EXCEPT !.fState = c.st, !.R = c.R, !.err = YUVinErr(c.R)]

\* SaveCustomHeadersToStream returning after the comment packet, the setup
\* packet never submitted
SaveCustomHeadersToStream_NoSetup(w, i) ==
    LET a == NewPacket(w, i.mem) IN
    IF a.err # NoErr THEN a ELSE
    LET b == Header(a, i.rH) IN
    IF b.err # NoErr THEN b ELSE
    LET c == SavePacketToStream(b, i.s1.inOk, i.s1.outOk) IN
    IF c.err # NoErr THEN c ELSE
    LET d == Comment(c, i.rC) IN
    IF d.err # NoErr THEN d ELSE
    OggPacketIn(d, i.in2)

SaveCustomHeadersToStream(w, i) ==
    LET a == NewPacket(w, i.mem) IN
    IF a.err # NoErr THEN a ELSE
    LET b == Header(a, i.rH) IN
    IF b.err # NoErr THEN b ELSE
    LET c == SavePacketToStream(b, i.s1.inOk, i.s1.outOk) IN
    IF c.err # NoErr THEN c ELSE
    LET d == Comment(c, i.rC) IN
    IF d.err # NoErr THEN d ELSE
    LET e == OggPacketIn(d, i.in2) IN
    IF e.err # NoErr THEN e ELSE
    LET f == Tables(e, i.rT) IN
    IF f.err # NoErr THEN f ELSE
    LET g == OggPacketIn(f, i.in3) IN
    IF g.err # NoErr THEN g ELSE
    SavePacketToStream(g, i.s4.inOk, i.s4.outOk)

SaveYUVBufferToStream(w, i) ==
    LET a == YUVin(w, i.sizeOk, i.key, i.fY) IN
    IF a.err # NoErr THEN a ELSE
    LET b == DoPacketOut(a, i.last, i.mem, i.fP) IN
    IF b.err # NoErr THEN b ELSE
    SavePacketToStream(b, i.s.inOk, i.s.outOk)

Flush(w, ok) == PagesFlushToStream(w, ok)

Close(w, ok) ==
    LET a == Flush(w, ok) IN
    IF a.err # NoErr THEN a
    ELSE IF a.foggs # "nil" THEN [OggDone(a) EXCEPT !.foggs = "nil", !.err = NoErr]
    ELSE [a EXCEPT !.err = NoErr]

\* GetGranulePos keeping only the bits below the granule shift
GetGranulePos_LowBits(st) == st.granulepos % Pow2(GranuleShift)

\* TheoraState.GetGranulePos / SetGranulePos on the encoder's state
GetGranulePos(st) == st.granulepos
SetGranulePos(st, value) == [st EXCEPT !.granulepos = value]

----------------------------------------------------------------------------
(* The encoder session as a state machine *)

\* statuses an engine call that "returns 0 on success" may answer
CallStatus == {0} \cup FaultStatus

\* outcomes of one SavePacketToStream call
SaveOk == [inOk |-> TRUE, outOk |-> TRUE]
SaveOutcomes == {SaveOk, [inOk |-> TRUE, outOk |-> FALSE], [inOk |-> FALSE, outOk |-> TRUE]}

\* the outcomes of the calls SaveCustomHeadersToStream makes, in call order;
\* the calls after the first one that fails are not made, so their
\* outcomes are kept at "success"
HeaderAllOk ==
    [mem |-> TRUE, rH |-> 0, s1 |-> SaveOk, rC |-> 0, in2 |-> TRUE, rT |-> 0, in3 |-> TRUE, s4 |-> SaveOk]

HeaderInputs ==
    {HeaderAllOk, [HeaderAllOk EXCEPT !.mem = FALSE]}
    \cup {[HeaderAllOk EXCEPT !.rH = R] : R \in FaultStatus}
    \cup {[HeaderAllOk EXCEPT !.s1 = o] : o \in SaveOutcomes}
    \cup {[HeaderAllOk EXCEPT !.rC = R] : R \in FaultStatus}
    \cup {[HeaderAllOk EXCEPT !.in2 = FALSE]}
    \cup {[HeaderAllOk EXCEPT !.rT = R] : R \in FaultStatus}
    \cup {[HeaderAllOk EXCEPT !.in3 = FALSE]}
    \cup {[HeaderAllOk EXCEPT !.s4 = o] : o \in SaveOutcomes}

\* likewise for SaveYUVBufferToStream: the frame (right size or not, marked
\* last or not), the engine's keyframe choice, and the calls' outcomes
FrameAllOk(sizeOk, key, last) ==
    [sizeOk |-> sizeOk, key |-> key, fY |-> 0, last |-> last, mem |-> TRUE, fP |-> 0, s |-> SaveOk]

FrameInputs ==
    UNION { {FrameAllOk(z, k, l), [FrameAllOk(z, k, l) EXCEPT !.mem = FALSE]}
            \cup {[FrameAllOk(z, k, l) EXCEPT !.fY = R] : R \in FaultStatus}
            \cup {[FrameAllOk(z, k, l) EXCEPT !.fP = R] : R \in FaultStatus}
            \cup {[FrameAllOk(z, k, l) EXCEPT !.s = o] : o \in SaveOutcomes}
            : z \in BOOLEAN, k \in BOOLEAN, l \in BOOLEAN }

HeaderOps == {"SaveCustomHeadersToStream", "SaveDefHeadersToStream"}

World ==
    [foggs |-> foggs, fState |-> fState, stream |-> stream, op |-> EmptyPacket, R |-> 0, err |-> NoErr]

\* the plain encode session: headers, frames with only the last marked
\* final, Close, then drains; "off" once the run leaves it
ScenNext(name, err, last) ==
    IF name \in HeaderOps /\ err = NoErr /\ scen = "start" THEN "hdr"
    ELSE IF name = "SaveYUVBufferToStream" /\ err = NoErr /\ scen \in {"hdr", "frames"}
        THEN (IF last THEN "final" ELSE "frames")
    ELSE IF name = "Close" /\ err = NoErr /\ scen = "final" THEN "closed"
    ELSE IF name = "PacketOut" /\ scen \in {"closed", "drained"} /\ err.e # "errTheoraException"
        THEN "drained"
    ELSE "off"

\* the call returns (or panics): the encoder's new state and the histories
Commit(name, w, last) ==
    /\ foggs' = w.foggs
    /\ fState' = w.fState
    /\ stream' = w.stream
    /\ lastOp' = name
    /\ lastErr' = w.err
    /\ lastR' = w.R
    /\ panicked' = (w.err = GoPanic)
    /\ hdrDone' = (hdrDone \/ (name \in HeaderOps /\ w.err = NoErr))
    /\ faulted' = (faulted \/ w.err.e = "errTheoraException")
    /\ closes' = IF name = "Close" /\ w.err = NoErr THEN closes + 1 ELSE closes
    /\ obs' = IF name = "SaveYUVBufferToStream" /\ w.err = NoErr
                 THEN Append(obs, [gp |-> GetGranulePos(w.fState), last |-> last])
                 ELSE obs
    /\ scen' = ScenNext(name, w.err, last)
    /\ UNCHANGED <<decVars, convVars, auxVars>>

CanFeed == fState.frames < MaxFrames \/ fState.doneflag
CanSubmit(n) == Len(stream.packets) + n <= MaxPackets

EncSaveCustomHeadersToStream ==
    /\ ~panicked /\ CanSubmit(4)
    /\ \E i \in HeaderInputs :
          Commit("SaveCustomHeadersToStream", SaveCustomHeadersToStream(World, i), FALSE)

\* SaveDefHeadersToStream: NewTheoraComment, then SaveCustomHeadersToStream
EncSaveDefHeadersToStream ==
    /\ ~panicked /\ CanSubmit(4)
    /\ \E memC \in BOOLEAN, i \in HeaderInputs :
          Commit("SaveDefHeadersToStream",
                 IF memC THEN SaveCustomHeadersToStream(World, i)
                 ELSE [World EXCEPT !.err = ErrOutOfMemory], FALSE)

EncSaveYUVBufferToStream ==
    /\ ~panicked /\ CanFeed /\ CanSubmit(1)
    /\ \E i \in FrameInputs :
          Commit("SaveYUVBufferToStream", SaveYUVBufferToStream(World, i), i.last)

EncYUVin ==
    /\ ~panicked /\ CanFeed
    /\ \E sizeOk \in BOOLEAN, key \in BOOLEAN, f \in CallStatus :
          Commit("YUVin", YUVin(World, sizeOk, key, f), FALSE)

EncPacketOut ==
    /\ ~panicked
    /\ \E last \in BOOLEAN, f \in CallStatus :
          Commit("PacketOut", PacketOut(World, last, f), last)

EncFlush ==
    /\ ~panicked
    /\ \E ok \in BOOLEAN : Commit("Flush", Flush(World, ok), FALSE)

EncClose ==
    /\ ~panicked
    /\ \E ok \in BOOLEAN : Commit("Close", Close(World, ok), FALSE)

\* the values a caller writes with SetGranulePos
GranuleValues == {0}

EncSetGranulePos ==
    /\ ~panicked
    /\ \E value \in GranuleValues :
          Commit("SetGranulePos", [World EXCEPT !.fState = SetGranulePos(fState, value)], FALSE)

\* a decoder and a converter that are not in use
DecIdle == dState = "none" /\ dLast = "none" /\ dHist = "none"
ConvIdle == img = "none" /\ fmt = "none" /\ yuv = "none" /\ reads = {} /\ cpc = "idle"
\* no pipeline running, no info and no handles in use
AuxIdle == pipe = "none" /\ tinfo = "none" /\ handles = "none"

\* the encoder NewTheoraEncoder returns
EncInit ==
    /\ foggs = "live"
    /\ fState = EngineInit
    /\ stream = StreamInit
    /\ lastOp = "NewTheoraEncoder"
    /\ lastErr = NoErr
    /\ lastR = 0
    /\ panicked = FALSE
    /\ hdrDone = FALSE
    /\ faulted = FALSE
    /\ closes = 0
    /\ obs = <<>>
    /\ scen = "start"

Init == EncInit /\ DecIdle /\ ConvIdle /\ AuxIdle

\* the stream-level session: headers, frames, drains, Flush and Close
Next ==
    \/ EncSaveCustomHeadersToStream
    \/ EncSaveDefHeadersToStream
    \/ EncSaveYUVBufferToStream
    \/ EncPacketOut
    \/ EncFlush
    \/ EncClose

Spec == Init /\ [][Next]_vars

\* the frame-level session: frames fed and drained in one call or in two,
\* the granule position written by the caller, and Close
NextFrames ==
    \/ EncSaveYUVBufferToStream
    \/ EncYUVin
    \/ EncPacketOut
    \/ EncSetGranulePos
    \/ EncClose

SpecFrames == Init /\ [][NextFrames]_vars

----------------------------------------------------------------------------
(* The codec engine on the decode side: theora_decode_* behind the         *)
(* decoder's fState.  st = [hdrs, frames]                                  *)

DecEngineInit == [hdrs |-> 0, frames |-> 0]

PacketKinds == {"ident", "comment", "setup", "data", "junk"}

\* the header packet the engine expects after n headers
NextHeader(n) == IF n = 0 THEN "ident" ELSE IF n = 1 THEN "comment" ELSE IF n = 2 THEN "setup" ELSE "no"

\* what the engine may answer to a packet fed before the three headers: its
\* contract leaves the case open
EarlyStatus == {0, OC_BADPACKET, OC_EINVAL}

\* consume one header packet
theora_decode_header(st, kind, fault) ==
    IF fault # 0 THEN [R |-> fault, st |-> st]
    ELSE IF kind = NextHeader(st.hdrs) THEN [R |-> 0, st |-> [st EXCEPT !.hdrs = @ + 1]]
    ELSE IF kind \in {"ident", "comment", "setup"} THEN [R |-> OC_BADHEADER, st |-> st]
    ELSE [R |-> OC_NOTFORMAT, st |-> st]

\* decode one data packet
theora_decode_packetin(st, kind, early, fault) ==
    IF fault # 0 THEN [R |-> fault, st |-> st]
    ELSE IF kind # "data" THEN [R |-> OC_BADPACKET, st |-> st]
    ELSE IF st.hdrs < 3 /\ early # 0 THEN [R |-> early, st |-> st]
    ELSE [R |-> 0, st |-> [st EXCEPT !.frames = @ + 1]]

\* hand out the decoded frame
theora_decode_YUVout(st, fault) == [R |-> fault, st |-> st]

----------------------------------------------------------------------------
(* TheoraDecoder: the operations of src/theora.go on d = [fState, R, err]  *)

DecWorld == [fState |-> dState, R |-> 0, err |-> NoErr]

DecoderHeader(d, kind, fault) ==
    LET c == theora_decode_header(d.fState, kind, fault)
    IN [d EXCEPT !.fState = c.st, !.R = c.R,
                 !.err = IF c.R # 0 THEN errTheoraException(c.R) ELSE NoErr]

\* PacketInErr with OC_BADPACKET left to the generic exception
PacketInErr_NoBadPacket(R) ==
    IF R = 0 THEN NoErr ELSE errTheoraException(R)

\* the error the decoder's PacketIn returns for the engine's status
PacketInErr(R) ==
    IF R = 0 THEN NoErr
    ELSE IF R = OC_BADPACKET THEN ETheoraDecBadPacketException
    ELSE errTheoraException(R)

DecoderPacketIn(d, kind, early, fault) ==
    LET c == theora_decode_packetin(d.fState, kind, early, fault)
    IN [d EXCEPT !.fState = c.st, !.R = c.R, !.err = PacketInErr(c.R)]

DecoderYUVout(d, fault) ==
    LET c == theora_decode_YUVout(d.fState, fault)
    IN [d EXCEPT !.fState = c.st, !.R = c.R,
                 !.err = IF c.R # 0 THEN errTheoraException(c.R) ELSE NoErr]

----------------------------------------------------------------------------
(* The decoder session as a state machine *)

\* the call returns: the decoder's new state, the call and the history
DecCommit(name, kind, d) ==
    /\ dState' = d.fState
    /\ dLast' = [op |-> name, kind |-> kind, hdrs |-> dState.hdrs, R |-> d.R, err |-> d.err]
    /\ dHist' = [early |-> dHist.early \/ (name = "PacketIn" /\ kind = "data" /\ dState.hdrs = 0)]
    /\ UNCHANGED <<encVars, convVars, auxVars>>

DecHeader ==
    \E kind \in PacketKinds, f \in CallStatus :
        DecCommit("Header", kind, DecoderHeader(DecWorld, kind, f))

DecPacketIn ==
    /\ dState.frames < MaxFrames
    /\ \E kind \in PacketKinds, early \in EarlyStatus, f \in CallStatus :
          DecCommit("PacketIn", kind, DecoderPacketIn(DecWorld, kind, early, f))

DecYUVout ==
    \E f \in CallStatus : DecCommit("YUVout", "none", DecoderYUVout(DecWorld, f))

\* the decoder NewTheoraDecoder returns
DecInit ==
    /\ dState = DecEngineInit
    /\ dLast = [op |-> "NewTheoraDecoder", kind |-> "none", hdrs |-> 0, R |-> 0, err |-> NoErr]
    /\ dHist = [early |-> FALSE]

InitDec == EncInit /\ DecInit /\ ConvIdle /\ AuxIdle

NextDec ==
    \/ DecHeader
    \/ DecPacketIn
    \/ DecYUVout

SpecDec == InitDec /\ [][NextDec]_vars

----------------------------------------------------------------------------
(* 32-bit unsigned arithmetic, as Go's uint32: a value is <<hi, lo>>, two  *)
(* 16-bit halves                                                           *)

\* the uint32 of an integer 0 <= n < 2^31
U32(n) == <<n \div 65536, n % 65536>>

Add32(a, b) ==
    LET lo == a[2] + b[2]
        hi == a[1] + b[1] + (lo \div 65536)
    IN <<hi % 65536, lo % 65536>>

\* a subtraction that stops at zero instead of wrapping modulo 2^32
Sub32_Saturating(a, b) ==
    IF a[1] < b[1] \/ (a[1] = b[1] /\ a[2] < b[2]) THEN <<0, 0>>
    ELSE LET lo == a[2] - b[2]
             hi == a[1] - b[1] - (IF lo < 0 THEN 1 ELSE 0)
         IN <<hi, (lo + 65536) % 65536>>

Sub32(a, b) ==
    LET lo == a[2] - b[2]
        hi == a[1] - b[1] - (IF lo < 0 THEN 1 ELSE 0)
    IN <<(hi + 65536) % 65536, (lo + 65536) % 65536>>

\* a / d for a divisor 2 <= d < 2^31; a value of 2^31 or more is divided as
\* (2^31 - 1) + 1 + rest
Div32(a, d) ==
    IF a[1] < 32768 THEN U32((a[1] * 65536 + a[2]) \div d)
    ELSE LET rest == (a[1] - 32768) * 65536 + a[2]
         IN U32((2147483647 \div d) + (rest \div d) + (((2147483647 % d) + (rest % d) + 1) \div d))

\* the bitwise and of two n-bit numbers
RECURSIVE BitAnd(_, _, _)
BitAnd(x, y, n) ==
    IF n = 0 THEN 0 ELSE (x % 2) * (y % 2) + 2 * BitAnd(x \div 2, y \div 2, n - 1)

\* int(uint32(v+15) & ^uint32(0xf)) without the +15: no rounding up
PadTo16_NoRound(v) ==
    LET a == U32(v)
    IN BitAnd(a[1], 65535, 16) * 65536 + BitAnd(a[2], 65520, 16)

\* int(uint32(v+15) & ^uint32(0xf)): ^uint32(0xf) is <<0xffff, 0xfff0>>
PadTo16(v) ==
    LET a == U32(v + 15)
    IN BitAnd(a[1], 65535, 16) * 65536 + BitAnd(a[2], 65520, 16)

----------------------------------------------------------------------------
(* Images and colours.  A colour is an alpha-premultiplied color.RGBA      *)
(* [r, g, b, a]; an image is [min, w, h, pix] with Bounds() =               *)
(* (min.x, min.y)-(min.x + w, min.y + h) and pix the pixels inside it.      *)

Color(r, g, b, a) == [r |-> r, g |-> g, b |-> b, a |-> a]
ZeroColor == Color(0, 0, 0, 0)
Red == Color(255, 0, 0, 255)
HalfOrange == Color(64, 32, 0, 128)
Palette == {Red, HalfOrange}

InBounds(im, x, y) ==
    /\ im.min[1] <= x /\ x < im.min[1] + im.w
    /\ im.min[2] <= y /\ y < im.min[2] + im.h

\* aData.At(x, y): the pixel, or the zero colour outside Bounds()
At(im, x, y) == IF InBounds(im, x, y) THEN im.pix[<<x, y>>] ELSE ZeroColor

\* nrgb: color.NRGBAModel.Convert(v), the colour without the alpha
\* premultiplication; (r16 * 0xffff) / a16 with r16 = r * 0x101 and
\* a16 = a * 0x101 is (r * 0xffff) / a
nrgb(c) ==
    IF c.a = 255 THEN <<c.r, c.g, c.b>>
    ELSE IF c.a = 0 THEN <<0, 0, 0>>
    ELSE <<((c.r * 65535) \div c.a) \div 256, ((c.g * 65535) \div c.a) \div 256,
           ((c.b * 65535) \div c.a) \div 256>>

\* clamp: a uint32 cut to a byte
clamp(v) == IF v[1] > 0 \/ v[2] > 255 THEN 255 ELSE v[2]

booltoint(v) == IF v THEN 1 ELSE 0

\* the numerators of the colour matrix, in uint32, for a pixel <<r, g, b>>
LumaNum(p) ==
    Add32(Add32(Add32(U32(65481 * p[1]), U32(128553 * p[2])), U32(24966 * p[3])), U32(4207500))

UNum(p) ==
    Add32(Sub32(Sub32(U32(29032005), U32(33488 * p[1])), U32(65744 * p[2])), U32(99232 * p[3]))

VNum(p) ==
    Add32(Sub32(Sub32(U32(157024 * p[1]), U32(131488 * p[2])), U32(25536 * p[3])), U32(45940035))

\* the luma byte written for a pixel
LumaOf(c) == clamp(Div32(LumaNum(nrgb(c)), 255000))

----------------------------------------------------------------------------
(* TheoraYUVbuffer.ConvertFromRasterImage                                  *)

ValidFormats == {"444", "422", "420"}

\* a byte slice is a function on 0..n-1; nil is the empty one
NilBytes == [k \in {} |-> 0]

\* the buffer NewTheoraYUVbuffer returns: calloc'ed fields, no data
NewTheoraYUVbuffer ==
    [y_width |-> 0, y_height |-> 0, y_stride |-> 0, uv_width |-> 0, uv_height |-> 0, uv_stride |-> 0,
     fyData |-> NilBytes, fuData |-> NilBytes, fvData |-> NilBytes]

\* the value the last write to index k leaves, 0 (make's zero) if none;
\* ws is the sequence of <<index, byte>> writes in program order
RECURSIVE LastWrite(_, _, _)
LastWrite(ws, k, n) ==
    IF n = 0 THEN 0 ELSE IF ws[n][1] = k THEN ws[n][2] ELSE LastWrite(ws, k, n - 1)

\* the chroma byte of a block: the pixels' numerators each divided by the
\* number of pixels, summed, then divided by the matrix constant
RECURSIVE SumDiv(_, _, _)
SumDiv(nums, d, n) == IF n = 0 THEN U32(0) ELSE Add32(SumDiv(nums, d, n - 1), Div32(nums[n], d))

\* VOf420 with the four numerators summed before the division by 4
VOf420_SumFirst(c0, c1, c2, c3) ==
    clamp(Div32(Div32(Add32(Add32(VNum(nrgb(c0)), VNum(nrgb(c1))), Add32(VNum(nrgb(c2)), VNum(nrgb(c3)))), 4), 357510))

UOf420(c0, c1, c2, c3) ==
    clamp(Div32(SumDiv(<<UNum(nrgb(c0)), UNum(nrgb(c1)), UNum(nrgb(c2)), UNum(nrgb(c3))>>, 4, 4), 225930))
VOf420(c0, c1, c2, c3) ==
    clamp(Div32(SumDiv(<<VNum(nrgb(c0)), VNum(nrgb(c1)), VNum(nrgb(c2)), VNum(nrgb(c3))>>, 4, 4), 357510))
UOf422(c0, c1) == clamp(Div32(SumDiv(<<UNum(nrgb(c0)), UNum(nrgb(c1))>>, 2, 2), 225930))
VOf422(c0, c1) == clamp(Div32(SumDiv(<<VNum(nrgb(c0)), VNum(nrgb(c1))>>, 2, 2), 357510))
UOf444(c0) == clamp(Div32(UNum(nrgb(c0)), 225930))
VOf444(c0) == clamp(Div32(VNum(nrgb(c0)), 357510))

\* the loops' coordinates: the block of (x, y) starts at the even column and
\* row below it; x1 and y1 are the block's second column and row, or the
\* first again at an odd right or bottom edge
Even(x) == x - (x % 2)
X1(x, w) == x + booltoint((x + 1) < w)

\* the calls of aData.At the loops make, as the set of their coordinates
ReadCoords(cf, w, h) ==
    IF cf = "420"
    THEN UNION { {<<x, y>>, <<X1(x, w), y>>, <<x, X1(y, h)>>, <<X1(x, w), X1(y, h)>>}
                 : x \in {a \in 0..(w - 1) : a % 2 = 0}, y \in {b \in 0..(h - 1) : b % 2 = 0} }
    ELSE IF cf = "444" THEN (0..(w - 1)) \X (0..(h - 1))
    ELSE UNION { {<<x, y>>, <<X1(x, w), y>>} : x \in {a \in 0..(w - 1) : a % 2 = 0}, y \in 0..(h - 1) }

\* the writes to yuv_y that the loop body at (x, y) makes, in order
LumaWrites(cf, im, x, y, yuv_w) ==
    LET x1 == X1(x, im.w)
        y1 == X1(y, im.h)
    IN IF cf = "420"
       THEN << <<x + y * yuv_w, LumaOf(At(im, x, y))>>, <<x1 + y * yuv_w, LumaOf(At(im, x1, y))>>,
               <<x + y1 * yuv_w, LumaOf(At(im, x, y1))>>, <<x1 + y1 * yuv_w, LumaOf(At(im, x1, y1))>> >>
       ELSE IF cf = "444" THEN << <<x + y * yuv_w, LumaOf(At(im, x, y))>> >>
       ELSE << <<x + y * yuv_w, LumaOf(At(im, x, y))>>, <<x1 + y * yuv_w, LumaOf(At(im, x1, y))>> >>

\* yuv_y after the loops: index k is written only by the loop body of its
\* own block (420), pair (422) or pixel (444)
LumaPlane(cf, im, yuv_w, yuv_h) ==
    [k \in 0..(yuv_w * yuv_h - 1) |->
        LET px == k % yuv_w
            py == k \div yuv_w
            x == IF cf = "444" THEN px ELSE Even(px)
            y == IF cf = "420" THEN Even(py) ELSE py
            ws == LumaWrites(cf, im, x, y, yuv_w)
        IN IF px < im.w /\ py < im.h THEN LastWrite(ws, k, Len(ws)) ELSE 0]

\* yuv_u or yuv_v after the loops (which = "u" or "v"); the 444 loop indexes
\* them with yuv_w, the others with the chroma stride
ChromaPlane(which, cf, im, yuv_w, uv_stride, uv_h) ==
    [k \in 0..(uv_stride * uv_h - 1) |->
        IF cf = "444"
        THEN LET x == k % yuv_w
                 y == k \div yuv_w
             IN IF x < im.w /\ y < im.h
                THEN (IF which = "u" THEN UOf444(At(im, x, y)) ELSE VOf444(At(im, x, y)))
                ELSE 0
        ELSE LET x == 2 * (k % uv_stride)
                 y == IF cf = "420" THEN 2 * (k \div uv_stride) ELSE k \div uv_stride
                 x1 == X1(x, im.w)
                 y1 == X1(y, im.h)
             IN IF x < im.w /\ y < im.h
                THEN (IF cf = "420"
                      THEN (IF which = "u"
                            THEN UOf420(At(im, x, y), At(im, x1, y), At(im, x, y1), At(im, x1, y1))
                            ELSE VOf420(At(im, x, y), At(im, x1, y), At(im, x, y1), At(im, x1, y1)))
                      ELSE (IF which = "u"
                            THEN UOf422(At(im, x, y), At(im, x1, y))
                            ELSE VOf422(At(im, x, y), At(im, x1, y))))
                ELSE 0]

\* the widths and heights the call sets, theora.go:920-931
UVWidthOf(cf, yuv_w) == IF cf = "444" THEN yuv_w ELSE yuv_w \div 2
UVHeightOf(cf, yuv_h) == IF cf = "420" THEN yuv_h \div 2 ELSE yuv_h

\* ConvertFromRasterImage with the format check after the sizes are set
ConvertFromRasterImage_SizesFirst(v, chroma_format, aData) ==
    IF chroma_format \notin ValidFormats
    THEN [ok |-> FALSE,
          buf |-> [v EXCEPT !.y_width = PadTo16(aData.w), !.y_height = PadTo16(aData.h), !.y_stride = PadTo16(aData.w)],
          reads |-> {}]
    ELSE [ok |-> TRUE, buf |-> v, reads |-> {}]

\* the call: [ok, buf, reads], buf the receiver afterwards and reads the
\* coordinates passed to aData.At
ConvertFromRasterImage(v, chroma_format, aData) ==
    IF chroma_format \notin ValidFormats THEN [ok |-> FALSE, buf |-> v, reads |-> {}]
    ELSE LET h == aData.h
             w == aData.w
             yuv_w == PadTo16(w)
             yuv_h == PadTo16(h)
             uv_w == UVWidthOf(chroma_format, yuv_w)
             uv_h == UVHeightOf(chroma_format, yuv_h)
         IN [ok |-> TRUE,
             buf |-> [y_width |-> yuv_w, y_height |-> yuv_h, y_stride |-> yuv_w,
                      uv_width |-> uv_w, uv_height |-> uv_h, uv_stride |-> uv_w,
                      fyData |-> LumaPlane(chroma_format, aData, yuv_w, yuv_h),
                      fuData |-> ChromaPlane("u", chroma_format, aData, yuv_w, uv_w, uv_h),
                      fvData |-> ChromaPlane("v", chroma_format, aData, yuv_w, uv_w, uv_h)],
             reads |-> ReadCoords(chroma_format, w, h)]

----------------------------------------------------------------------------
(* The converter as a state machine: one call on a new buffer *)

\* where an image's bounds start: at the origin, or not (a SubImage)
Origins == {<<0, 0>>, <<1, 1>>}

\* image sizes beyond MaxDim, converted for solid images only
SolidDims == {<<17, 15>>, <<16, 16>>}

Formats == ValidFormats \cup {"440"}

Rect(m, w, h) == (m[1]..(m[1] + w - 1)) \X (m[2]..(m[2] + h - 1))

Images ==
    UNION { UNION { { [min |-> m, w |-> w, h |-> h, pix |-> f] : f \in [Rect(m, w, h) -> Palette] }
                    : w \in 1..MaxDim, h \in 1..MaxDim }
            \cup { [min |-> m, w |-> d[1], h |-> d[2], pix |-> [q \in Rect(m, d[1], d[2]) |-> c]]
                   : d \in SolidDims, c \in Palette }
            : m \in Origins }

Convert ==
    /\ cpc = "start"
    /\ LET r == ConvertFromRasterImage(yuv, fmt, img)
       IN /\ yuv' = r.buf
          /\ reads' = r.reads
          /\ cpc' = IF r.ok THEN "done" ELSE "failed"
    /\ UNCHANGED <<img, fmt, encVars, decVars, auxVars>>

InitConv ==
    /\ EncInit /\ DecIdle /\ AuxIdle
    /\ img \in Images
    /\ fmt \in Formats
    /\ yuv = NewTheoraYUVbuffer
    /\ reads = {}
    /\ cpc = "start"

NextConv == Convert

SpecConv == InitConv /\ [][NextConv]_vars

----------------------------------------------------------------------------
(* The colour matrix on single 2x2 blocks: every block over the corners of *)
(* the RGB cube that give the extreme luma and chroma values, and a violet *)
(* whose V numerator is 1 above a multiple of the V constant               *)

Opaque(r, g, b) == Color(r, g, b, 255)

BlockPalette ==
    {Opaque(0, 0, 0), Opaque(255, 255, 255), Opaque(255, 0, 0), Opaque(0, 255, 255),
     Opaque(255, 255, 0), Opaque(0, 0, 255), Opaque(208, 0, 236)}

BlockImages == { [min |-> <<0, 0>>, w |-> 2, h |-> 2, pix |-> f] : f \in [Rect(<<0, 0>>, 2, 2) -> BlockPalette] }

InitBlocks ==
    /\ EncInit /\ DecIdle /\ AuxIdle
    /\ img \in BlockImages
    /\ fmt \in ValidFormats
    /\ yuv = NewTheoraYUVbuffer
    /\ reads = {}
    /\ cpc = "start"

NextBlocks == Convert

SpecBlocks == InitBlocks /\ [][NextBlocks]_vars

----------------------------------------------------------------------------
(* Calls repeated on one buffer: after the first call the caller converts  *)
(* the image again into the same buffer, in any format                     *)

SolidImages ==
    { [min |-> m, w |-> d[1], h |-> d[2], pix |-> [q \in Rect(m, d[1], d[2]) |-> c]]
      : m \in Origins, d \in ((1..MaxDim) \X (1..MaxDim)) \cup SolidDims, c \in Palette }

Reconvert ==
    /\ cpc \in {"done", "failed"}
    /\ \E f \in Formats :
          LET r == ConvertFromRasterImage(yuv, f, img)
          IN /\ fmt' = f
             /\ yuv' = r.buf
             /\ reads' = r.reads
             /\ cpc' = IF r.ok THEN "done" ELSE "failed"
    /\ UNCHANGED <<img, encVars, decVars, auxVars>>

InitReconv ==
    /\ EncInit /\ DecIdle /\ AuxIdle
    /\ img \in SolidImages
    /\ fmt \in Formats
    /\ yuv = NewTheoraYUVbuffer
    /\ reads = {}
    /\ cpc = "start"

NextReconv ==
    \/ Convert
    \/ Reconvert

SpecReconv == InitReconv /\ [][NextReconv]_vars

----------------------------------------------------------------------------
(* The example pipeline of src/test/encoder/main.go: a reader goroutine    *)
(* decodes the frames and hands them over the unbuffered channel to_enc to *)
(* the encode loop of main.                                                 *)
(* pipe = [total, i, rpc, decoded, mpc, got, taken, encoded, closed,        *)
(*         crashed]                                                         *)

\* the chroma format the example converts to
CFG_CHROMA == "444"

\* the last_p argument of SaveYUVBufferToStream with every frame marked
IsLast_Always(loc, total) == TRUE

\* the last_p argument of SaveYUVBufferToStream: frame.loc == (total-1)
IsLast(loc, total) == loc = total - 1

\* the reader decodes frames[i]; check panics when the file fails
ReaderDecode ==
    /\ ~pipe.crashed /\ pipe.rpc = "open"
    /\ \E ok \in BOOLEAN :
          pipe' = IF ok THEN [pipe EXCEPT !.rpc = "send", !.decoded = @ + 1]
                  ELSE [pipe EXCEPT !.crashed = TRUE]
    /\ UNCHANGED <<encVars, decVars, convVars, tinfo, handles>>

\* the send of the reader meets the receive of the select: the loop takes
\* frame{i, img}, or frame{total, nil} after the last one
Handoff ==
    /\ ~pipe.crashed /\ pipe.mpc = "select" /\ pipe.rpc \in {"send", "sendEnd"}
    /\ pipe' = IF pipe.rpc = "send"
               THEN [pipe EXCEPT !.got = pipe.i, !.taken = @ + 1, !.mpc = "got", !.i = @ + 1,
                                 !.rpc = IF pipe.i + 1 < pipe.total THEN "open" ELSE "sendEnd"]
               ELSE [pipe EXCEPT !.got = pipe.total, !.mpc = "got", !.rpc = "exit"]
    /\ UNCHANGED <<encVars, decVars, convVars, tinfo, handles>>

\* the default case of the select: no frame is taken, the loop sleeps
SelectDefault ==
    /\ ~pipe.crashed /\ pipe.mpc = "select"
    /\ pipe' = [pipe EXCEPT !.mpc = "sleep"]
    /\ UNCHANGED <<encVars, decVars, convVars, tinfo, handles>>

SleepEnds ==
    /\ ~pipe.crashed /\ pipe.mpc = "sleep"
    /\ pipe' = [pipe EXCEPT !.mpc = "select"]
    /\ UNCHANGED <<encVars, decVars, convVars, tinfo, handles>>

\* the loop body for a frame: a new buffer, the conversion, and the frame
\* saved; check panics on an error, a refused conversion only prints
EncodeFrame ==
    /\ ~pipe.crashed /\ pipe.mpc = "got" /\ pipe.got # pipe.total
    /\ \E bufOk \in BOOLEAN, saveOk \in BOOLEAN :
          pipe' = IF ~bufOk THEN [pipe EXCEPT !.crashed = TRUE]
                  ELSE IF CFG_CHROMA \notin ValidFormats THEN [pipe EXCEPT !.mpc = "select"]
                  ELSE IF ~saveOk THEN [pipe EXCEPT !.crashed = TRUE]
                  ELSE [pipe EXCEPT !.mpc = "select",
                                    !.encoded = Append(@, [loc |-> pipe.got, last |-> IsLast(pipe.got, pipe.total)])]
    /\ UNCHANGED <<encVars, decVars, convVars, tinfo, handles>>

\* the loop body for frame{total, nil}: Close, and the loop ends
CloseEncoder ==
    /\ ~pipe.crashed /\ pipe.mpc = "got" /\ pipe.got = pipe.total
    /\ pipe' = [pipe EXCEPT !.closed = TRUE, !.mpc = "done"]
    /\ UNCHANGED <<encVars, decVars, convVars, tinfo, handles>>

InitPipe ==
    /\ EncInit /\ DecIdle /\ ConvIdle
    /\ tinfo = "none" /\ handles = "none"
    /\ \E total \in 1..MaxTotal :
          pipe = [total |-> total, i |-> 0, rpc |-> "open", decoded |-> 0, mpc |-> "select", got |-> -1,
                  taken |-> 0, encoded |-> <<>>, closed |-> FALSE, crashed |-> FALSE]

NextPipe ==
    \/ ReaderDecode
    \/ Handoff
    \/ SelectDefault
    \/ SleepEnds
    \/ EncodeFrame
    \/ CloseEncoder

SpecPipe == InitPipe /\ [][NextPipe]_vars

----------------------------------------------------------------------------
(* TheoraInfo: the boolean parameters and one integer parameter of the     *)
(* theora_info behind fValue.  f = [dropframes_p, keyframe_auto_p,         *)
(* quick_p, quality]; tinfo = [f, isSet, arg, last] with isSet and arg the *)
(* argument of the latest call of each boolean setter and last the latest  *)
(* accessor call and what it returned                                      *)

\* the struct calloc returns to NewTheoraInfo
NewTheoraInfo == [dropframes_p |-> 0, keyframe_auto_p |-> 0, quick_p |-> 0, quality |-> 0]

\* SetDropFrames storing 1 for true
SetDropFrames_Direct(f, AValue) == [f EXCEPT !.dropframes_p = IF AValue THEN 1 ELSE 0]

SetDropFrames(f, AValue) == [f EXCEPT !.dropframes_p = IF AValue THEN 0 ELSE 1]

GetDropFrames(f) == f.dropframes_p > 0

\* SetKeyframeAuto storing 1 for true
SetKeyframeAuto_Direct(f, AValue) == [f EXCEPT !.keyframe_auto_p = IF AValue THEN 1 ELSE 0]

SetKeyframeAuto(f, AValue) == [f EXCEPT !.keyframe_auto_p = IF AValue THEN 0 ELSE 1]

GetKeyframeAuto(f) == f.keyframe_auto_p > 0

SetQuick(f, AValue) == [f EXCEPT !.quick_p = IF AValue THEN 1 ELSE 0]

GetQuick(f) == f.quick_p > 0

SetQuality(f, AValue) == [f EXCEPT !.quality = AValue]

\* the quality values the model sets (0..63 in the engine)
Qualities == {0, 31}

InfoCall(op, ret, f, isSet, arg) ==
    /\ tinfo' = [f |-> f, isSet |-> isSet, arg |-> arg, last |-> [op |-> op, ret |-> ret]]
    /\ UNCHANGED <<encVars, decVars, convVars, pipe, handles>>

InfoSetDropFrames ==
    \E b \in BOOLEAN :
        InfoCall("SetDropFrames", FALSE, SetDropFrames(tinfo.f, b),
                 [tinfo.isSet EXCEPT !.drop = TRUE], [tinfo.arg EXCEPT !.drop = b])

InfoGetDropFrames ==
    InfoCall("GetDropFrames", GetDropFrames(tinfo.f), tinfo.f, tinfo.isSet, tinfo.arg)

InfoSetKeyframeAuto ==
    \E b \in BOOLEAN :
        InfoCall("SetKeyframeAuto", FALSE, SetKeyframeAuto(tinfo.f, b),
                 [tinfo.isSet EXCEPT !.auto = TRUE], [tinfo.arg EXCEPT !.auto = b])

InfoGetKeyframeAuto ==
    InfoCall("GetKeyframeAuto", GetKeyframeAuto(tinfo.f), tinfo.f, tinfo.isSet, tinfo.arg)

InfoSetQuick ==
    \E b \in BOOLEAN :
        InfoCall("SetQuick", FALSE, SetQuick(tinfo.f, b),
                 [tinfo.isSet EXCEPT !.quick = TRUE], [tinfo.arg EXCEPT !.quick = b])

InfoGetQuick ==
    InfoCall("GetQuick", GetQuick(tinfo.f), tinfo.f, tinfo.isSet, tinfo.arg)

InfoSetQuality ==
    \E q \in Qualities :
        InfoCall("SetQuality", FALSE, SetQuality(tinfo.f, q), tinfo.isSet, tinfo.arg)

InitInfo ==
    /\ EncInit /\ DecIdle /\ ConvIdle
    /\ pipe = "none" /\ handles = "none"
    /\ tinfo = [f |-> NewTheoraInfo,
                isSet |-> [drop |-> FALSE, auto |-> FALSE, quick |-> FALSE],
                arg |-> [drop |-> FALSE, auto |-> FALSE, quick |-> FALSE],
                last |-> [op |-> "NewTheoraInfo", ret |-> FALSE]]

NextInfo ==
    \/ InfoSetDropFrames
    \/ InfoGetDropFrames
    \/ InfoSetKeyframeAuto
    \/ InfoGetKeyframeAuto
    \/ InfoSetQuick
    \/ InfoGetQuick
    \/ InfoSetQuality

SpecInfo == InitInfo /\ [][NextInfo]_vars

----------------------------------------------------------------------------
(* The native handles: fValue of a TheoraComment, a TheoraInfo, a          *)
(* TheoraState and a TheoraYUVbuffer.  handles[o] = [fValue, frees,        *)
(* clears, planeFrees, own, calls, collected]: frees counts C.free of the  *)
(* handle, clears the engine's clear calls on it, planeFrees the C.free of *)
(* the y, u and v planes of a buffer that owns its data; calls counts the  *)
(* explicit Done calls and collected says that the finalizer has run       *)

Objects == {"comment", "info", "state", "yuv"}

\* TheoraState.Done without the check of fValue
TheoraStateDone_NoGuard(h) == [h EXCEPT !.fValue = "nil", !.frees = @ + 1, !.clears = @ + 1]

TheoraCommentDone(h) ==
    IF h.fValue # "nil" THEN [h EXCEPT !.fValue = "nil", !.frees = @ + 1, !.clears = @ + 1] ELSE h

TheoraInfoDone(h) ==
    IF h.fValue # "nil" THEN [h EXCEPT !.fValue = "nil", !.frees = @ + 1, !.clears = @ + 1] ELSE h

TheoraStateDone(h) ==
    IF h.fValue # "nil" THEN [h EXCEPT !.fValue = "nil", !.frees = @ + 1, !.clears = @ + 1] ELSE h

TheoraYUVbufferDone(h) ==
    IF h.fValue # "nil"
    THEN [h EXCEPT !.fValue = "nil", !.frees = @ + 1, !.planeFrees = IF h.own THEN @ + 3 ELSE @]
    ELSE h

DoneOf(o, h) ==
    CASE o = "comment" -> TheoraCommentDone(h)
      [] o = "info" -> TheoraInfoDone(h)
      [] o = "state" -> TheoraStateDone(h)
      [] OTHER -> TheoraYUVbufferDone(h)

\* the finalizer set by the constructor: Done, for a comment only when
\* fValue is not nil
FinalizerOf(o, h) ==
    IF o = "comment" THEN (IF h.fValue # "nil" THEN TheoraCommentDone(h) ELSE h) ELSE DoneOf(o, h)

\* an explicit Done call on an object the program still refers to
ExplicitDone ==
    /\ \E o \in Objects :
          /\ ~handles[o].collected /\ handles[o].calls < MaxDone
          /\ handles' = [handles EXCEPT ![o] = [DoneOf(o, handles[o]) EXCEPT !.calls = @ + 1]]
    /\ UNCHANGED <<encVars, decVars, convVars, pipe, tinfo>>

\* the object has become unreachable and the runtime runs its finalizer
Finalize ==
    /\ \E o \in Objects :
          /\ ~handles[o].collected
          /\ handles' = [handles EXCEPT ![o] = [FinalizerOf(o, handles[o]) EXCEPT !.collected = TRUE]]
    /\ UNCHANGED <<encVars, decVars, convVars, pipe, tinfo>>

\* the four objects as their constructors return them; the buffer's planes
\* are set and it owns them or not
InitHandles ==
    /\ EncInit /\ DecIdle /\ ConvIdle
    /\ pipe = "none" /\ tinfo = "none"
    /\ \E own \in BOOLEAN :
          handles = [o \in Objects |->
                        [fValue |-> "live", frees |-> 0, clears |-> 0, planeFrees |-> 0,
                         own |-> (o = "yuv" /\ own), calls |-> 0, collected |-> FALSE]]

NextHandles ==
    \/ ExplicitDone
    \/ Finalize

SpecHandles == InitHandles /\ [][NextHandles]_vars

----------------------------------------------------------------------------
(* Claims about the encoder session *)

\* C1: once a first Close has returned nil, a second Close returns without
\* panicking and without releasing the ogg stream a second time.
C1_CloseTwiceSafe ==
    (closes >= 1 /\ lastOp = "Close") => (~panicked /\ stream.freed <= 1)

\* C2: every header emission that returns nil has submitted to the ogg
\* stream exactly the identification, the comment and the setup packet, each
\* once, in that order.
C2_HeaderPacketsExact ==
    [][(lastOp' \in HeaderOps /\ lastErr' = NoErr)
        => stream.packets' = stream.packets \o <<IdentPacket, CommentPacket, SetupPacket>>]_vars

\* C3 (as claimed): a SaveYUVBufferToStream that writes a data packet is
\* preceded by a completed header emission.
C3_NoDataBeforeHeaders ==
    (lastOp = "SaveYUVBufferToStream" /\ lastErr = NoErr) => hdrDone

\* C3 (amended): the encoder does not refuse a frame before the headers; but
\* a data packet written after a header emission has completed follows, in the
\* submitted sequence, an identification, a comment and a setup packet in
\* that order.
C3_DataFollowsCompletedHeaders ==
    [][(hdrDone /\ lastOp' = "SaveYUVBufferToStream" /\ lastErr' = NoErr)
        => LET ps == stream.packets' n == Len(ps)
           IN /\ n >= 1 /\ ps[n].kind = "data"
              /\ \E a \in 1..n, b \in 1..n, c \in 1..n :
                    /\ a < b /\ b < c /\ c < n
                    /\ ps[a] = IdentPacket /\ ps[b] = CommentPacket /\ ps[c] = SetupPacket]_vars

\* a data packet written after a completed header emission
C3_Witness ==
    /\ hdrDone /\ lastOp = "SaveYUVBufferToStream" /\ lastErr = NoErr
    /\ stream.packets[Len(stream.packets)].kind = "data"

\* C4: a session of N >= 1 frames (headers, N frames with only the last one
\* marked final, Close) has submitted exactly 3 header packets followed by
\* exactly N data packets, the last one with the final flag; a drain after
\* that returns ETheoraEncCompletedException.
C4_SessionPackets ==
    /\ scen \in {"closed", "drained"} =>
          LET ps == stream.packets n == Len(obs)
          IN /\ n >= 1 /\ Len(ps) = 3 + n
             /\ ps[1] = IdentPacket /\ ps[2] = CommentPacket /\ ps[3] = SetupPacket
             /\ \A k \in 4..(3 + n) : ps[k] = Packet("data", k = 3 + n)
    /\ scen = "drained" => lastErr = ETheoraEncCompletedException

\* C6 (as claimed): once an operation has returned errTheoraException, every
\* later frame, drain or header operation fails.
C6_FaultedBlocksAll ==
    (faulted /\ lastOp \in ({"YUVin", "PacketOut", "SaveYUVBufferToStream"} \cup HeaderOps))
        => lastErr # NoErr

\* C6 (amended): the encoder keeps no Faulted state.  Also after an
\* operation has returned errTheoraException, YUVin returns nil exactly when
\* the engine answers 0 (-1: ETheoraEncDifferException, OC_EINVAL:
\* ETheoraEncNotReadyException, anything else: errTheoraException), and
\* PacketOut returns nil exactly when the engine answers 1.
C6_FaultedStillEngineDecided ==
    faulted =>
        /\ lastOp = "YUVin" =>
              lastErr = (CASE lastR = 0 -> NoErr
                           [] lastR = -1 -> ETheoraEncDifferException
                           [] lastR = OC_EINVAL -> ETheoraEncNotReadyException
                           [] OTHER -> errTheoraException(lastR))
        /\ lastOp = "PacketOut" => (lastErr = NoErr <=> lastR = 1)

\* a frame accepted after an operation returned errTheoraException
C6_Witness ==
    faulted /\ lastOp = "YUVin" /\ lastErr = NoErr /\ fState.frames >= 1

----------------------------------------------------------------------------
(* Claims about the decoder session *)

\* C5 (as claimed): a data packet fed to PacketIn before any header packet
\* has been consumed is answered with the distinct PrematureData error.
C5_PrematureDataReported ==
    (dLast.op = "PacketIn" /\ dLast.kind = "data" /\ dLast.hdrs = 0)
        => dLast.err = Err("PrematureData", 0)

\* C5 (amended): PacketIn counts no headers and has no PrematureData error.
\* A packet fed before the three headers is handed to the engine like any
\* other, and PacketIn returns nil for status 0,
\* ETheoraDecBadPacketException for OC_BADPACKET and errTheoraException{R}
\* for every other status R.
C5_EarlyPacketEngineDecided ==
    (dLast.op = "PacketIn" /\ dLast.hdrs < 3) =>
        dLast.err = (CASE dLast.R = 0 -> NoErr
                       [] dLast.R = OC_BADPACKET -> ETheoraDecBadPacketException
                       [] OTHER -> errTheoraException(dLast.R))

\* a data packet was fed before any header and answered with an error that is
\* one of the three; later the three headers were consumed and a data packet
\* decoded
C5_Witness ==
    /\ dHist.early
    /\ dLast.op = "PacketIn" /\ dLast.kind = "data" /\ dLast.hdrs = 3 /\ dLast.err = NoErr

----------------------------------------------------------------------------
(* Claims about the converter *)

RoundUp16(n) == ((n + 15) \div 16) * 16

\* C8: after a conversion of a w x h image (w, h >= 1) in 4:2:0, 4:2:2 or
\* 4:4:4 the luma width and stride are w rounded up to a multiple of 16 and
\* the luma height is h rounded up likewise; the chroma width and stride are
\* the luma width for 4:4:4 and half of it otherwise; the chroma height is
\* half the luma height for 4:2:0 and the luma height otherwise; each plane
\* holds exactly stride * height bytes
C8_PlaneDimensions ==
    (cpc = "done") =>
        /\ yuv.y_width = RoundUp16(img.w) /\ yuv.y_stride = RoundUp16(img.w)
        /\ yuv.y_height = RoundUp16(img.h)
        /\ yuv.uv_width = (IF fmt = "444" THEN RoundUp16(img.w) ELSE RoundUp16(img.w) \div 2)
        /\ yuv.uv_stride = yuv.uv_width
        /\ yuv.uv_height = (IF fmt = "420" THEN RoundUp16(img.h) \div 2 ELSE RoundUp16(img.h))
        /\ DOMAIN yuv.fyData = 0..(yuv.y_stride * yuv.y_height - 1)
        /\ DOMAIN yuv.fuData = 0..(yuv.uv_stride * yuv.uv_height - 1)
        /\ DOMAIN yuv.fvData = 0..(yuv.uv_stride * yuv.uv_height - 1)

\* a 17x15 image converted in 4:2:0: 32x16 luma, 16x8 chroma
C8_Witness ==
    /\ cpc = "done" /\ fmt = "420" /\ img.w = 17 /\ img.h = 15
    /\ yuv.y_width = 32 /\ yuv.y_height = 16 /\ yuv.uv_width = 16 /\ yuv.uv_height = 8
    /\ Cardinality(DOMAIN yuv.fyData) = 512 /\ Cardinality(DOMAIN yuv.fuData) = 128

\* C9: a conversion never reads a pixel outside the image's bounds: every
\* coordinate it passes to At lies inside Bounds(), whatever the size, the
\* format and the top-left corner of the bounds
C9_ReadsInsideBounds ==
    (cpc = "done") => \A c \in reads : InBounds(img, c[1], c[2])

\* the luma byte the matrix gives the pixel in column x and row y of the
\* image, counted from the top-left corner of its bounds
ExpectedLuma(im, x, y) ==
    LET p == nrgb(im.pix[<<im.min[1] + x, im.min[2] + y>>])
    IN (65481 * p[1] + 128553 * p[2] + 24966 * p[3] + 4207500) \div 255000

\* C10: after a successful conversion of a w x h image every luma sample at
\* (x, y) with x < w and y < h is (65481 R + 128553 G + 24966 B + 4207500) /
\* 255000 of the source pixel there (81 for red), and every luma sample with
\* x >= w or y >= h in the padded plane is zero
C10_LumaValues ==
    (cpc = "done") =>
        \A k \in DOMAIN yuv.fyData :
            LET x == k % yuv.y_stride
                y == k \div yuv.y_stride
            IN IF x < img.w /\ y < img.h
               THEN /\ yuv.fyData[k] = ExpectedLuma(img, x, y)
                    /\ (img.pix[<<img.min[1] + x, img.min[2] + y>>] = Red => yuv.fyData[k] = 81)
               ELSE yuv.fyData[k] = 0

\* the chroma numerators of the pixel in column x, row y as true integers
UInt(im, x, y) ==
    LET p == nrgb(im.pix[<<x, y>>])
    IN 29032005 - 33488 * p[1] - 65744 * p[2] + 99232 * p[3]

VInt(im, x, y) ==
    LET p == nrgb(im.pix[<<x, y>>])
    IN 157024 * p[1] - 131488 * p[2] - 25536 * p[3] + 45940035

Clamp255(n) == IF n > 255 THEN 255 ELSE n

\* C11 as stated: the chroma sample of a 2x2 block in 4:2:0 is the sum of
\* the four contributions, divided by 4, then by the matrix constant
\* (225930 for U, 357510 for V), clamped; in 4:2:2 the sum of the two
\* contributions of a row, divided by 2, then by the constant, clamped
C11_ChromaSumThenDivide ==
    (cpc = "done" /\ img \in BlockImages) =>
        /\ (fmt = "420") =>
              /\ yuv.fuData[0] = Clamp255(((UInt(img, 0, 0) + UInt(img, 1, 0) + UInt(img, 0, 1) + UInt(img, 1, 1)) \div 4) \div 225930)
              /\ yuv.fvData[0] = Clamp255(((VInt(img, 0, 0) + VInt(img, 1, 0) + VInt(img, 0, 1) + VInt(img, 1, 1)) \div 4) \div 357510)
        /\ (fmt = "422") =>
              \A y \in 0..1 :
                  /\ yuv.fuData[y * yuv.uv_stride] = Clamp255(((UInt(img, 0, y) + UInt(img, 1, y)) \div 2) \div 225930)
                  /\ yuv.fvData[y * yuv.uv_stride] = Clamp255(((VInt(img, 0, y) + VInt(img, 1, y)) \div 2) \div 357510)

\* C11 amended: in 4:2:0 each of the four contributions is divided by 4
\* first, the four quotients are summed and the sum is divided by the matrix
\* constant; in 4:2:2 each of the two contributions is divided by 2 first.
\* For 4:2:2, and for U in 4:2:0, this equals the sum-then-divide value
C11_ChromaDivideThenSum ==
    (cpc = "done" /\ img \in BlockImages) =>
        /\ (fmt = "420") =>
              /\ yuv.fuData[0] = Clamp255(((UInt(img, 0, 0) \div 4) + (UInt(img, 1, 0) \div 4) + (UInt(img, 0, 1) \div 4) + (UInt(img, 1, 1) \div 4)) \div 225930)
              /\ yuv.fvData[0] = Clamp255(((VInt(img, 0, 0) \div 4) + (VInt(img, 1, 0) \div 4) + (VInt(img, 0, 1) \div 4) + (VInt(img, 1, 1) \div 4)) \div 357510)
              /\ yuv.fuData[0] = Clamp255(((UInt(img, 0, 0) + UInt(img, 1, 0) + UInt(img, 0, 1) + UInt(img, 1, 1)) \div 4) \div 225930)
        /\ (fmt = "422") =>
              \A y \in 0..1 :
                  /\ yuv.fuData[y * yuv.uv_stride] = Clamp255(((UInt(img, 0, y) \div 2) + (UInt(img, 1, y) \div 2)) \div 225930)
                  /\ yuv.fvData[y * yuv.uv_stride] = Clamp255(((VInt(img, 0, y) \div 2) + (VInt(img, 1, y) \div 2)) \div 357510)
                  /\ yuv.fuData[y * yuv.uv_stride] = Clamp255(((UInt(img, 0, y) + UInt(img, 1, y)) \div 2) \div 225930)
                  /\ yuv.fvData[y * yuv.uv_stride] = Clamp255(((VInt(img, 0, y) + VInt(img, 1, y)) \div 2) \div 357510)

\* a solid violet block converted in 4:2:0: V is 202, where the sum of the
\* four numerators divided by 4 and by the constant is 203
C11_Witness ==
    /\ cpc = "done" /\ fmt = "420" /\ img \in BlockImages
    /\ \A q \in DOMAIN img.pix : img.pix[q] = Opaque(208, 0, 236)
    /\ yuv.fvData[0] = 202
    /\ ((4 * VInt(img, 0, 0)) \div 4) \div 357510 = 203

\* C12: a call with a chroma format outside {4:2:0, 4:2:2, 4:4:4} returns
\* false and leaves the buffer as it was: no dimension, stride or plane data
\* changes; a later call with a valid format on the same buffer succeeds
C12_InvalidFormatLeavesBuffer ==
    [][/\ (fmt' \notin ValidFormats) => (cpc' = "failed" /\ yuv' = yuv)
       /\ (cpc = "failed" /\ fmt' \in ValidFormats) =>
             (cpc' = "done" /\ yuv'.y_width = RoundUp16(img.w) /\ yuv'.y_height = RoundUp16(img.h))]_vars

\* a call with an invalid format has failed on a buffer that holds an
\* earlier conversion, which is still there
C12_Witness ==
    /\ cpc = "failed" /\ fmt \notin ValidFormats
    /\ yuv.y_width = RoundUp16(img.w) /\ yuv.y_height = RoundUp16(img.h)
    /\ Cardinality(DOMAIN yuv.fyData) = yuv.y_stride * yuv.y_height

----------------------------------------------------------------------------
(* Claims about frame submission *)

\* C13: in a running session (not closed, the final packet not yet drained)
\* a frame whose size differs from the configured one makes YUVin return
\* ETheoraEncDifferException, which is neither ETheoraEncNotReadyException
\* nor an errTheoraException; SaveYUVBufferToStream given such a frame
\* returns the same error with no packet drained or written and the engine
\* state as before, and a correctly sized frame submitted next is accepted
\* and appends its data packet
C13_SizeMismatchRecoverable ==
    (~panicked /\ foggs = "live" /\ ~fState.doneflag) =>
        \A key \in BOOLEAN, last \in BOOLEAN :
            LET y == YUVin(World, FALSE, key, 0)
                bad == SaveYUVBufferToStream(World, FrameAllOk(FALSE, key, last))
                good == SaveYUVBufferToStream(bad, FrameAllOk(TRUE, key, last))
            IN /\ y.err = ETheoraEncDifferException
               /\ y.err # ETheoraEncNotReadyException
               /\ \A R \in {OC_FAULT, OC_EINVAL, OC_IMPL} : y.err # errTheoraException(R)
               /\ bad.err = ETheoraEncDifferException
               /\ bad.stream = stream /\ bad.fState = fState /\ bad.op = EmptyPacket
               /\ good.err = NoErr
               /\ good.stream.packets = Append(stream.packets, Packet("data", last))
               /\ good.fState.frames = fState.frames + 1

\* a session that has accepted a frame, then refused one for its size
C13_Witness ==
    /\ lastOp = "SaveYUVBufferToStream" /\ lastErr = ETheoraEncDifferException /\ lastR = -1
    /\ fState.frames >= 1 /\ ~fState.doneflag /\ foggs = "live"
    /\ Len(stream.packets) = fState.frames

----------------------------------------------------------------------------
(* Claims about the example pipeline *)

\* C14: under every interleaving of the reader goroutine and the encode
\* loop at most one decoded frame waits un-consumed and the reader holds it
\* until the loop takes it; the frames are encoded once each in index
\* order, only frame total-1 is marked last, and Close is called only after
\* all of them
C14_HandoffOrdered ==
    /\ pipe.decoded - pipe.taken \in {0, 1}
    /\ (pipe.decoded - pipe.taken = 1) <=> (pipe.rpc = "send")
    /\ (pipe.rpc = "send") => (pipe.decoded = pipe.i + 1 /\ pipe.taken = pipe.i)
    /\ Len(pipe.encoded) <= pipe.total
    /\ \A k \in 1..Len(pipe.encoded) :
          /\ pipe.encoded[k].loc = k - 1
          /\ pipe.encoded[k].last <=> (k = pipe.total)
    /\ pipe.closed => Len(pipe.encoded) = pipe.total

\* three frames encoded in order and the encoder closed
C14_Witness ==
    /\ pipe.total = 3 /\ pipe.closed /\ ~pipe.crashed
    /\ pipe.encoded = <<[loc |-> 0, last |-> FALSE], [loc |-> 1, last |-> FALSE], [loc |-> 2, last |-> TRUE]>>

----------------------------------------------------------------------------
(* Claims about the stream parameters *)

\* C15: SetDropFrames inverts its argument: SetDropFrames(true) stores
\* dropframes_p = 0 and SetDropFrames(false) stores 1, so GetDropFrames()
\* after SetDropFrames(b) returns not b, for both values of b
C15_DropFramesInverted ==
    tinfo.isSet.drop =>
        /\ tinfo.f.dropframes_p = (IF tinfo.arg.drop THEN 0 ELSE 1)
        /\ (tinfo.last.op = "GetDropFrames") => (tinfo.last.ret = ~tinfo.arg.drop)

\* GetDropFrames has answered false after SetDropFrames(true)
C15_Witness ==
    /\ tinfo.last.op = "GetDropFrames" /\ tinfo.isSet.drop /\ tinfo.arg.drop
    /\ tinfo.last.ret = FALSE /\ tinfo.f.dropframes_p = 0

\* C17: GetQuick() after SetQuick(b) returns b, but GetKeyframeAuto() after
\* SetKeyframeAuto(b) returns not b (true stores 0, false stores 1), for
\* both values of b and whatever other setters were called in between
C17_QuickDirectKeyframeAutoInverted ==
    /\ (tinfo.isSet.quick /\ tinfo.last.op = "GetQuick") => (tinfo.last.ret = tinfo.arg.quick)
    /\ tinfo.isSet.auto =>
          /\ tinfo.f.keyframe_auto_p = (IF tinfo.arg.auto THEN 0 ELSE 1)
          /\ (tinfo.last.op = "GetKeyframeAuto") => (tinfo.last.ret = ~tinfo.arg.auto)

\* GetKeyframeAuto has answered false after SetKeyframeAuto(true), with the
\* other setters called as well
C17_Witness ==
    /\ tinfo.last.op = "GetKeyframeAuto" /\ tinfo.isSet.auto /\ tinfo.arg.auto
    /\ tinfo.last.ret = FALSE
    /\ tinfo.isSet.quick /\ tinfo.arg.quick /\ tinfo.isSet.drop /\ tinfo.f.quality = 31

----------------------------------------------------------------------------
(* Claims about the 32-bit arithmetic of the colour matrix *)

\* the chroma bytes of the block at the first column and row y, computed in
\* true integers as the loops do, without the clamp
ChromaInt(cf, im, y, which) ==
    LET c(x, yy) == IF which = "u" THEN UInt(im, x, yy) ELSE VInt(im, x, yy)
        K == IF which = "u" THEN 225930 ELSE 357510
    IN IF cf = "420"
       THEN ((c(0, 0) \div 4) + (c(1, 0) \div 4) + (c(0, 1) \div 4) + (c(1, 1) \div 4)) \div K
       ELSE ((c(0, y) \div 2) + (c(1, y) \div 2)) \div K

\* C16: the matrix arithmetic in uint32 is exact: although a partial sum of
\* the V formula wraps below zero, every final numerator is the true
\* integer value, every luma byte lies in 16..235, every chroma byte (4:4:4,
\* 4:2:2, 4:2:0) in 16..240, and the clamp to 255 changes no value
C16_MatrixExact ==
    (cpc = "done" /\ img \in BlockImages) =>
        /\ \A q \in DOMAIN img.pix :
              LET p == nrgb(img.pix[q])
              IN /\ LumaNum(p) = U32(65481 * p[1] + 128553 * p[2] + 24966 * p[3] + 4207500)
                 /\ UNum(p) = U32(UInt(img, q[1], q[2])) /\ UInt(img, q[1], q[2]) > 0
                 /\ VNum(p) = U32(VInt(img, q[1], q[2])) /\ VInt(img, q[1], q[2]) > 0
        /\ \A x \in 0..1, y \in 0..1 :
              /\ yuv.fyData[x + y * yuv.y_stride] = ExpectedLuma(img, x, y)
              /\ yuv.fyData[x + y * yuv.y_stride] \in 16..235
              /\ (fmt = "444") =>
                    /\ yuv.fuData[x + y * yuv.uv_stride] = UInt(img, x, y) \div 225930
                    /\ yuv.fvData[x + y * yuv.uv_stride] = VInt(img, x, y) \div 357510
                    /\ yuv.fuData[x + y * yuv.uv_stride] \in 16..240
                    /\ yuv.fvData[x + y * yuv.uv_stride] \in 16..240
        /\ (fmt = "422") =>
              \A y \in 0..1 :
                 /\ yuv.fuData[y * yuv.uv_stride] = ChromaInt(fmt, img, y, "u")
                 /\ yuv.fvData[y * yuv.uv_stride] = ChromaInt(fmt, img, y, "v")
                 /\ yuv.fuData[y * yuv.uv_stride] \in 16..240
                 /\ yuv.fvData[y * yuv.uv_stride] \in 16..240
        /\ (fmt = "420") =>
              /\ yuv.fuData[0] = ChromaInt(fmt, img, 0, "u") /\ yuv.fuData[0] \in 16..240
              /\ yuv.fvData[0] = ChromaInt(fmt, img, 0, "v") /\ yuv.fvData[0] \in 16..240

\* a block holding cyan, whose partial sum 157024*0 - 131488*255 wraps to
\* 2^32 - 33529440, beside white, blue and red: the extremes 16 and 240 of V
\* and 235 of luma are produced
C16_Witness ==
    /\ cpc = "done" /\ fmt = "444" /\ img \in BlockImages
    /\ img.pix[<<0, 0>>] = Opaque(0, 255, 255) /\ img.pix[<<1, 0>>] = Opaque(255, 0, 0)
    /\ img.pix[<<0, 1>>] = Opaque(255, 255, 255) /\ img.pix[<<1, 1>>] = Opaque(0, 0, 255)
    /\ Sub32(U32(0), U32(131488 * 255)) = <<65024, 24992>>
    /\ yuv.fvData[0] = 16 /\ yuv.fvData[1] = 240
    /\ yuv.fyData[yuv.y_stride] = 235 /\ yuv.fuData[yuv.uv_stride + 1] = 240

----------------------------------------------------------------------------
(* Claims about the native handles *)

\* C18: over any sequence of explicit Done calls and the finalizer's Done
\* each native handle is released at most once: the first Done frees it and
\* sets fValue to nil, every later Done frees nothing
C18_ReleasedAtMostOnce ==
    \A o \in Objects :
        LET h == handles[o]
            done == (h.calls > 0 \/ h.collected)
        IN /\ h.frees = (IF done THEN 1 ELSE 0)
           /\ (h.fValue = "nil") <=> done
           /\ h.clears <= 1
           /\ h.planeFrees = (IF done /\ h.own THEN 3 ELSE 0)

\* every object released by a first Done, then given a second Done and the
\* finalizer's
C18_Witness ==
    \A o \in Objects :
        /\ handles[o].calls >= 2 /\ handles[o].collected
        /\ handles[o].frees = 1 /\ handles[o].fValue = "nil"

====
